---------------------------- MODULE Spec2Model ----------------------------
(***************************************************************************)
(* Document ingestion and chunking pipeline of the academic-document       *)
(* analysis assistant: app/core/document_processor.py,                     *)
(* app/core/pdf_processor.py, app/core/ai_provider_factory.py and the      *)
(* retry loop of app/core/gemini_analyzer.py.                              *)
(*                                                                         *)
(* A Python str is modelled as a sequence of one-character strings, so     *)
(* len(), slicing, strip(), split() and the regular expressions of the     *)
(* source are computed character by character.                             *)
(*                                                                         *)
(* The specifications share the variables:                                 *)
(*   SpecChunk    the two chunk_text methods, one loop iteration a step    *)
(*   SpecPacking  DocumentProcessor.chunk_text on three equal sentences    *)
(*   SpecWindow   PDFProcessor.chunk_text on longer texts and windows      *)
(*   SpecWideWindow  PDFProcessor.chunk_text with windows of 8 and more    *)
(*   SpecClean    DocumentProcessor._clean_text applied once and twice     *)
(*   SpecExtract  DocumentProcessor.extract_text and the PDF extractors    *)
(*   SpecPdfPages DocumentProcessor.extract_text on PDFs of more pages     *)
(*   SpecInfo     DocumentProcessor.get_document_info                      *)
(*   SpecProvider ai_provider_factory.UnifiedAIAnalyzer: cache and switch  *)
(*   SpecRetry    GeminiAnalyzer._make_api_call_with_retry, one pass a step *)
(***************************************************************************)
EXTENDS Integers, Sequences, FiniteSets, TLC

VARIABLES
    \* ---- chunking (SpecChunk)
    text,               \* the str handed to chunk_text
    max_chunk_size,     \* self.max_chunk_size, set by __init__
    chunk_size_arg,     \* the chunk_size argument of DocumentProcessor.chunk_text
    chunk_size,         \* the local chunk_size once None is replaced by the default
    overlap,            \* the overlap argument of PDFProcessor.chunk_text
    callee,             \* which chunk_text is running / has run
    cpc,                \* position inside the running chunk_text
    sentences,          \* sentences the for loop has not visited yet
    current_chunk,      \* the running buffer
    words,              \* words left in the word-splitting while loop
    chunks,             \* the list being built; the return value once cpc = "done"
    start,              \* window start of PDFProcessor.chunk_text
    starts,             \* window starts already used, in order (history)
    \* ---- normalisation (SpecClean)
    raw,                \* the str handed to _clean_text
    npc,                \* how many times _clean_text has been applied
    once,               \* _clean_text(raw)
    twice,              \* _clean_text(_clean_text(raw))
    \* ---- extraction (SpecExtract)
    file_path,          \* the path argument
    file_exists,        \* os.path.exists(file_path)
    document,           \* what the libraries find in the file
    entry,              \* the public method that was called
    epc,                \* position inside the running extraction
    file_ext,           \* the local file_ext of extract_text
    page_num,           \* loop index of the page loop
    acc,                \* the local text accumulator of the PDF extractors
    handle,             \* the fitz document handle
    trace,              \* the steps executed so far, in order
    outcome,            \* how the call left: returned value or raised error
    info,               \* how get_document_info left: the dict or the error
    \* ---- provider selection (SpecProvider)
    default_provider,   \* the argument of UnifiedAIAnalyzer.__init__
    ppc,                \* "none", "ready" once constructed, "failed" if __init__ raised
    init_tried,         \* the analyzers __init__ tried to obtain, with their success
    current_provider,   \* self.current_provider
    analyzers,          \* self.analyzers: the cache, provider key -> analyzer
    created,            \* analyzers constructed so far, per provider key
    call,               \* the last method called and its argument
    result,             \* what that call returned
    \* ---- retry of the Gemini call (SpecRetry)
    max_retries,        \* the argument of _make_api_call_with_retry
    attempt,            \* the loop variable
    rpc,                \* position inside _make_api_call_with_retry
    replies,            \* what generate_content did at each attempt so far
    slept,              \* the arguments of time.sleep so far
    answer              \* how _make_api_call_with_retry left

chunkVars   == <<text, max_chunk_size, chunk_size_arg, chunk_size, overlap, callee, cpc,
                 sentences, current_chunk, words, chunks, start, starts>>
cleanVars   == <<raw, npc, once, twice>>
extractVars == <<file_path, file_exists, document, entry, epc, file_ext,
                 page_num, acc, handle, trace, outcome>>
infoVars    == <<info>>
providerVars == <<default_provider, ppc, init_tried, current_provider, analyzers,
                  created, call, result>>
retryVars   == <<max_retries, attempt, rpc, replies, slept, answer>>
aiVars      == <<providerVars, retryVars>>
vars        == <<chunkVars, cleanVars, extractVars, infoVars, aiVars>>

-----------------------------------------------------------------------------
(* Bounds of the model *)

MaxLen      == 5    \* longest text handed to a chunker
MaxSize     == 4    \* largest max_chunk_size / chunk_size
MaxOverlap  == 8    \* largest overlap
MaxRaw      == 4    \* longest str handed to _clean_text
MaxPages    == 2    \* most pages of a PDF
MaxSentence == 3    \* longest sentence of the three-sentence texts
MaxWinLen   == 6    \* longest text handed to the window chunker alone
MaxWinSize  == 5    \* largest max_chunk_size of the window chunker alone
MaxPdfPages == 3    \* most pages of a PDF read by extract_text alone
MaxWideLen  == 10   \* length of the texts handed to the wide window chunker
MaxRetries  == 6    \* largest max_retries handed to _make_api_call_with_retry

-----------------------------------------------------------------------------
(* Python str primitives *)

\* str.isspace() per character: what \s matches and what strip()/split() cut
Whitespace == {" ", "\t", "\n", "\r", "\f"}

\* the characters of the class [.!?] in chunk_text's re.split
Terminators == {".", "!", "?"}

IsSpace(c) == c \in Whitespace

RECURSIVE LStrip(_)
LStrip(s) ==
    IF s = <<>> THEN <<>>
    ELSE IF IsSpace(Head(s)) THEN LStrip(Tail(s)) ELSE s

RECURSIVE RStrip(_)
RStrip(s) ==
    IF s = <<>> THEN <<>>
    ELSE IF IsSpace(s[Len(s)]) THEN RStrip(SubSeq(s, 1, Len(s) - 1)) ELSE s

\* str.strip()
Strip(s) == RStrip(LStrip(s))

\* str.split() with no argument: maximal runs of non-whitespace
RECURSIVE SplitScan(_, _, _)
SplitScan(s, cur, out) ==
    IF s = <<>> THEN (IF cur = <<>> THEN out ELSE Append(out, cur))
    ELSE IF IsSpace(Head(s))
         THEN SplitScan(Tail(s), <<>>, IF cur = <<>> THEN out ELSE Append(out, cur))
         ELSE SplitScan(Tail(s), Append(cur, Head(s)), out)

Split(s) == SplitScan(s, <<>>, <<>>)

\* re.split(r'[.!?]+', s): the pieces between maximal runs of terminators,
\* empty pieces at either end included
RECURSIVE ReSplitScan(_, _, _, _)
ReSplitScan(s, cur, out, inRun) ==
    IF s = <<>> THEN Append(out, cur)
    ELSE IF Head(s) \in Terminators
         THEN IF inRun THEN ReSplitScan(Tail(s), cur, out, TRUE)
                       ELSE ReSplitScan(Tail(s), <<>>, Append(out, cur), TRUE)
         ELSE ReSplitScan(Tail(s), Append(cur, Head(s)), out, FALSE)

ReSplitSentences(s) == ReSplitScan(s, <<>>, <<>>, FALSE)

\* Python slice s[i:j] with 0-based indices; a negative index counts from the end
\* and both ends are clamped to the string
PyIndex(n, i) ==
    IF i < 0 THEN (IF n + i < 0 THEN 0 ELSE n + i)
    ELSE IF i > n THEN n ELSE i

Slice(s, i, j) == SubSeq(s, PyIndex(Len(s), i) + 1, PyIndex(Len(s), j))

\* str.rfind(c, i, j): highest 0-based index k in s[i:j] with s[k] = c, else -1
RFind(s, c, i, j) ==
    LET lo == PyIndex(Len(s), i)
        hi == PyIndex(Len(s), j)
        hits == {k \in lo .. (hi - 1) : s[k + 1] = c}
    IN  IF hits = {} THEN -1 ELSE CHOOSE k \in hits : \A m \in hits : m <= k

\* all sequences over S of length at most n
RECURSIVE SeqsUpTo(_, _)
SeqsUpTo(S, n) ==
    IF n = 0 THEN {<<>>}
    ELSE LET shorter == SeqsUpTo(S, n - 1)
         IN  shorter \cup {Append(s, c) : s \in {t \in shorter : Len(t) = n - 1}, c \in S}

-----------------------------------------------------------------------------
(* Inputs of the chunkers *)

ChunkChars == {"a", "b", " ", "."}
Texts      == SeqsUpTo(ChunkChars, MaxLen)
Sizes      == 1 .. MaxSize
Overlaps   == 0 .. MaxOverlap

\* the chunk_size argument: None (the default) or an int
ChunkSizeArgs == {[is_none |-> TRUE, val |-> 0]}
                 \cup {[is_none |-> FALSE, val |-> n] : n \in Sizes}

NoArg == [is_none |-> TRUE, val |-> 0]

\* the early-return test with the boundary case len(text) = chunk_size lost
FitsStrictly(t, size) == Len(t) < size

\* len(text) <= chunk_size, the early return of DocumentProcessor.chunk_text
Fits(t, size) == Len(t) <= size

\* len(text) <= self.max_chunk_size, the early return of PDFProcessor.chunk_text
PdfFits(t, size) == Len(t) <= size

\* the other components, at rest
CleanAtRest ==
    /\ raw = <<>> /\ npc = "idle" /\ once = <<>> /\ twice = <<>>

ExtractAtRest ==
    /\ file_path = <<>> /\ file_exists = FALSE /\ document = <<>>
    /\ entry = "none" /\ epc = "idle" /\ file_ext = <<>> /\ page_num = 0
    /\ acc = <<>> /\ handle = "none" /\ trace = <<>>
    /\ outcome = [kind |-> "none", type |-> "", msg |-> <<>>, value |-> <<>>]

\* no call of get_document_info yet
NoInfo ==
    [kind |-> "none", type |-> "", filename |-> <<>>, extension |-> <<>>,
     format_name |-> "", file_size |-> 0, character_count |-> 0, word_count |-> 0,
     extraction_successful |-> FALSE, error |-> <<>>]

InfoAtRest == info = NoInfo

\* no method of UnifiedAIAnalyzer called yet
NoCall   == [op |-> "none", is_none |-> TRUE, name |-> <<>>]
NoResult == [kind |-> "none", value |-> <<>>]

ProviderAtRest ==
    /\ default_provider = <<>> /\ ppc = "none" /\ init_tried = <<>>
    /\ current_provider = <<>> /\ analyzers = {} /\ created = <<>>
    /\ call = NoCall /\ result = NoResult

RetryAtRest ==
    /\ max_retries = 0 /\ attempt = 0 /\ rpc = "idle"
    /\ replies = <<>> /\ slept = <<>> /\ answer = <<>>

AiAtRest == ProviderAtRest /\ RetryAtRest

ChunkAtRest ==
    /\ text = <<>> /\ max_chunk_size = 1 /\ chunk_size_arg = NoArg
    /\ chunk_size = 1 /\ overlap = 0
    /\ callee = "none" /\ cpc = "idle" /\ sentences = <<>>
    /\ current_chunk = <<>> /\ words = <<>> /\ chunks = <<>>
    /\ start = 0 /\ starts = <<>>

-----------------------------------------------------------------------------
(* DocumentProcessor.chunk_text: sentence-greedy chunking *)

InitChunk ==
    /\ text \in Texts
    /\ max_chunk_size \in Sizes
    /\ chunk_size_arg = NoArg
    /\ chunk_size = max_chunk_size
    /\ overlap = 0
    /\ callee = "none"
    /\ cpc = "idle"
    /\ sentences = <<>>
    /\ current_chunk = <<>>
    /\ words = <<>>
    /\ chunks = <<>>
    /\ start = 0
    /\ starts = <<>>
    /\ CleanAtRest
    /\ ExtractAtRest
    /\ InfoAtRest
    /\ AiAtRest

\* the inner while loop: words are moved to word_chunk, each followed by a
\* space, as long as the next one fits
RECURSIVE PackWords(_, _, _)
PackWords(ws, word_chunk, size) ==
    IF ws # <<>> /\ Len(word_chunk) + Len(Head(ws)) + 1 <= size
    THEN PackWords(Tail(ws), word_chunk \o Head(ws) \o <<" ">>, size)
    ELSE [word_chunk |-> word_chunk, words |-> ws]

\* entry of chunk_text up to the first loop test
ChunkTextCall ==
    /\ cpc = "idle"
    /\ \E arg \in ChunkSizeArgs :
         LET size == IF arg.is_none THEN max_chunk_size ELSE arg.val
         IN  /\ chunk_size_arg' = arg
             /\ chunk_size' = size
             /\ IF Fits(text, size)
                THEN /\ chunks' = <<text>>
                     /\ sentences' = <<>>
                     /\ cpc' = "done"
                ELSE /\ chunks' = <<>>
                     /\ sentences' = ReSplitSentences(text)
                     /\ cpc' = "for"
    /\ callee' = "DocumentProcessor"
    /\ current_chunk' = <<>>
    /\ words' = <<>>
    /\ UNCHANGED <<text, max_chunk_size, overlap, start, starts>>
    /\ UNCHANGED <<cleanVars, extractVars, infoVars, aiVars>>

\* one pass through the body of "for sentence in sentences"
ForSentence ==
    /\ cpc = "for"
    /\ sentences # <<>>
    /\ LET sentence == Strip(Head(sentences))
       IN  /\ sentences' = Tail(sentences)
           /\ IF sentence = <<>>
              THEN UNCHANGED <<current_chunk, chunks, words, cpc>>
              ELSE IF Len(current_chunk) + Len(sentence) + 1 > chunk_size
              THEN IF current_chunk # <<>>
                   THEN /\ chunks' = Append(chunks, Strip(current_chunk))
                        /\ current_chunk' = sentence
                        /\ UNCHANGED <<words, cpc>>
                   ELSE /\ words' = Split(sentence)
                        /\ cpc' = IF Split(sentence) # <<>> THEN "while_words" ELSE "for"
                        /\ UNCHANGED <<current_chunk, chunks>>
              ELSE /\ current_chunk' = current_chunk \o sentence \o <<".", " ">>
                   /\ UNCHANGED <<chunks, words, cpc>>
    /\ UNCHANGED <<text, max_chunk_size, chunk_size_arg, chunk_size, overlap, callee, start, starts>>
    /\ UNCHANGED <<cleanVars, extractVars, infoVars, aiVars>>

\* one pass through the body of "while words".  A pass that moves no word
\* leaves every local as it was, so the loop test is true again with the same
\* state for ever: the call never returns (cpc = "diverged").
WhileWords ==
    /\ cpc = "while_words"
    /\ words # <<>>
    /\ LET packed == PackWords(words, <<>>, chunk_size)
       IN  /\ words' = packed.words
           /\ chunks' = IF packed.word_chunk # <<>>
                        THEN Append(chunks, Strip(packed.word_chunk))
                        ELSE chunks
           /\ cpc' = IF packed.words = <<>> THEN "for"
                     ELSE IF packed.words = words THEN "diverged"
                     ELSE "while_words"
    /\ UNCHANGED <<text, max_chunk_size, chunk_size_arg, chunk_size, overlap, callee,
                   sentences, current_chunk, start, starts>>
    /\ UNCHANGED <<cleanVars, extractVars, infoVars, aiVars>>

\* after the for loop: flush the buffer and return
ChunkTextReturn ==
    /\ cpc = "for"
    /\ sentences = <<>>
    /\ chunks' = IF current_chunk # <<>>
                 THEN Append(chunks, Strip(current_chunk))
                 ELSE chunks
    /\ cpc' = "done"
    /\ UNCHANGED <<text, max_chunk_size, chunk_size_arg, chunk_size, overlap, callee,
                   sentences, current_chunk, words, start, starts>>
    /\ UNCHANGED <<cleanVars, extractVars, infoVars, aiVars>>

-----------------------------------------------------------------------------
(* pdf_processor.PDFProcessor.chunk_text: overlapping windows *)

\* entry of chunk_text up to the first loop test
PdfChunkTextCall ==
    /\ cpc = "idle"
    /\ \E ov \in Overlaps : overlap' = ov
    /\ callee' = "PDFProcessor"
    /\ IF PdfFits(text, max_chunk_size)
       THEN /\ chunks' = <<text>>
            /\ cpc' = "done"
       ELSE /\ chunks' = <<>>
            /\ cpc' = "while_start"
    /\ start' = 0
    /\ starts' = <<>>
    /\ UNCHANGED <<text, max_chunk_size, chunk_size_arg, chunk_size,
                   sentences, current_chunk, words>>
    /\ UNCHANGED <<cleanVars, extractVars, infoVars, aiVars>>

\* the next window starting where the last one ended
NextStartNoOverlap(end, ov) == end

\* start = end - overlap
NextStart(end, ov) == end - ov

\* one pass through "while start < len(text)".  The pass is a function of
\* start alone, so a start that comes back repeats the same passes for ever
\* while chunks grows without bound (cpc = "diverged").
WhileStart ==
    /\ cpc = "while_start"
    /\ IF start < Len(text)
       THEN LET window_end == start + max_chunk_size
                sentence_break == RFind(text, ".", start, window_end)
                end == IF sentence_break > start + (max_chunk_size \div 2)
                       THEN sentence_break + 1 ELSE window_end
            IN  IF window_end >= Len(text)
                THEN /\ chunks' = Append(chunks, Slice(text, start, Len(text)))
                     /\ starts' = Append(starts, start)
                     /\ cpc' = "done"
                     /\ UNCHANGED start
                ELSE /\ chunks' = Append(chunks, Slice(text, start, end))
                     /\ starts' = Append(starts, start)
                     /\ start' = NextStart(end, overlap)
                     /\ cpc' = IF \/ NextStart(end, overlap) = start
                                  \/ \E i \in 1 .. Len(starts) : starts[i] = NextStart(end, overlap)
                               THEN "diverged" ELSE "while_start"
       ELSE /\ cpc' = "done"
            /\ UNCHANGED <<chunks, start, starts>>
    /\ UNCHANGED <<text, max_chunk_size, chunk_size_arg, chunk_size, overlap, callee,
                   sentences, current_chunk, words>>
    /\ UNCHANGED <<cleanVars, extractVars, infoVars, aiVars>>

NextChunk ==
    \/ ChunkTextCall
    \/ ForSentence
    \/ WhileWords
    \/ ChunkTextReturn
    \/ PdfChunkTextCall
    \/ WhileStart

SpecChunk == InitChunk /\ [][NextChunk]_vars

-----------------------------------------------------------------------------
(* DocumentProcessor.chunk_text on three sentences of equal length *)

\* a sentence of n characters: n - 1 letters and the closing period
SentencesOf(n) == {body \o <<".">> : body \in [1 .. n - 1 -> {"a", "b"}]}

\* three such sentences with nothing between them
PackingTexts ==
    UNION {{s1 \o s2 \o s3 : s1 \in SentencesOf(n), s2 \in SentencesOf(n),
                              s3 \in SentencesOf(n)} : n \in 2 .. MaxSentence}

\* DocumentProcessor(max_chunk_size = 2 * n) and a text of 3 * n characters
InitPacking ==
    /\ text \in PackingTexts
    /\ max_chunk_size = 2 * (Len(text) \div 3)
    /\ chunk_size_arg = NoArg
    /\ chunk_size = max_chunk_size
    /\ overlap = 0
    /\ callee = "none"
    /\ cpc = "idle"
    /\ sentences = <<>>
    /\ current_chunk = <<>>
    /\ words = <<>>
    /\ chunks = <<>>
    /\ start = 0
    /\ starts = <<>>
    /\ CleanAtRest
    /\ ExtractAtRest
    /\ InfoAtRest
    /\ AiAtRest

NextPacking ==
    \/ ChunkTextCall
    \/ ForSentence
    \/ WhileWords
    \/ ChunkTextReturn

SpecPacking == InitPacking /\ [][NextPacking]_vars

-----------------------------------------------------------------------------
(* PDFProcessor.chunk_text on texts longer than the largest window *)

WindowTexts == SeqsUpTo({"a", "."}, MaxWinLen)
WindowSizes == 1 .. MaxWinSize

\* PDFProcessor(max_chunk_size = n) and a text of letters and periods
InitWindow ==
    /\ text \in WindowTexts
    /\ max_chunk_size \in WindowSizes
    /\ chunk_size_arg = NoArg
    /\ chunk_size = max_chunk_size
    /\ overlap = 0
    /\ callee = "none"
    /\ cpc = "idle"
    /\ sentences = <<>>
    /\ current_chunk = <<>>
    /\ words = <<>>
    /\ chunks = <<>>
    /\ start = 0
    /\ starts = <<>>
    /\ CleanAtRest
    /\ ExtractAtRest
    /\ InfoAtRest
    /\ AiAtRest

NextWindow ==
    \/ PdfChunkTextCall
    \/ WhileStart

SpecWindow == InitWindow /\ [][NextWindow]_vars

-----------------------------------------------------------------------------
(* PDFProcessor.chunk_text with a window nearly as long as the text *)

WideTexts == [1 .. MaxWideLen -> {"a", "."}]
WideSizes == (MaxWideLen - 2) .. (MaxWideLen - 1)

\* PDFProcessor(max_chunk_size = n) and a text one or two characters longer
InitWideWindow ==
    /\ text \in WideTexts
    /\ max_chunk_size \in WideSizes
    /\ chunk_size_arg = NoArg
    /\ chunk_size = max_chunk_size
    /\ overlap = 0
    /\ callee = "none"
    /\ cpc = "idle"
    /\ sentences = <<>>
    /\ current_chunk = <<>>
    /\ words = <<>>
    /\ chunks = <<>>
    /\ start = 0
    /\ starts = <<>>
    /\ CleanAtRest
    /\ ExtractAtRest
    /\ InfoAtRest
    /\ AiAtRest

NextWideWindow ==
    \/ PdfChunkTextCall
    \/ WhileStart

SpecWideWindow == InitWideWindow /\ [][NextWideWindow]_vars

-----------------------------------------------------------------------------
(* DocumentProcessor._clean_text: normalisation *)

\* the letters that occur in the texts and file names of the model
CasePairs == {<<"A", "a">>, <<"B", "b">>, <<"C", "c">>, <<"D", "d">>, <<"E", "e">>,
              <<"F", "f">>, <<"G", "g">>, <<"M", "m">>, <<"O", "o">>, <<"P", "p">>,
              <<"R", "r">>, <<"T", "t">>, <<"X", "x">>}
Uppercase == {p[1] : p \in CasePairs}
Lowercase == {p[2] : p \in CasePairs}
Digits    == {"0", "1", "2", "3", "4", "5", "6", "7", "8", "9"}

\* \w
IsWordChar(c) == c \in Lowercase \cup Uppercase \cup Digits \cup {"_"}

\* \d
IsDigit(c) == c \in Digits

\* [A-Z]
IsUpper(c) == c \in Uppercase

\* the punctuation of the allow-list of line 223 (the backquote, the last
\* character of the class, cannot be written in a string here and is in no input)
AllowedPunct == {".", ",", ";", ":", "!", "?", "-", "(", ")", "[", "]", "{", "}",
                 "\"", "'", "/", "@", "#", "$", "%", "^", "&", "*", "+", "=",
                 "<", ">", "~"}

\* a character the class [^\w\s...] of line 223 does not match
IsAllowed(c) == IsWordChar(c) \/ IsSpace(c) \/ c \in AllowedPunct

\* last index of the maximal run of whitespace that starts at index i
RECURSIVE SpaceRunEnd(_, _)
SpaceRunEnd(s, i) ==
    IF i < Len(s) /\ IsSpace(s[i + 1]) THEN SpaceRunEnd(s, i + 1) ELSE i

Max(S) == CHOOSE k \in S : \A m \in S : m <= k

\* re.sub(r'\n\s*\n\s*\n', '\n\n', s): a match starts at a newline and, the
\* quantifiers being greedy, runs to the last newline of the whitespace run,
\* provided the run holds three newlines from there on
RECURSIVE SubNewlines(_, _, _)
SubNewlines(s, i, out) ==
    IF i > Len(s) THEN out
    ELSE IF s[i] = "\n"
         THEN LET newlines == {k \in i .. SpaceRunEnd(s, i) : s[k] = "\n"}
              IN  IF Cardinality(newlines) >= 3
                  THEN SubNewlines(s, Max(newlines) + 1, out \o <<"\n", "\n">>)
                  ELSE SubNewlines(s, i + 1, Append(out, s[i]))
         ELSE SubNewlines(s, i + 1, Append(out, s[i]))

\* re.sub(r'[ \t]+', ' ', s)
RECURSIVE SubBlanks(_, _, _)
SubBlanks(s, i, out) ==
    IF i > Len(s) THEN out
    ELSE IF s[i] \in {" ", "\t"}
         THEN IF out # <<>> /\ i > 1 /\ s[i - 1] \in {" ", "\t"}
              THEN SubBlanks(s, i + 1, out)
              ELSE SubBlanks(s, i + 1, Append(out, " "))
         ELSE SubBlanks(s, i + 1, Append(out, s[i]))

\* the text passed on with its line ends as they are
SubLineEndsKept(s, i, out) == s

\* re.sub(r'^\s+|\s+$', '', s, flags=re.MULTILINE).  At index i the first
\* alternative matches the whole whitespace run when i starts a line; the
\* second matches the longest whitespace prefix that ends at the end of the
\* string or right before a newline.  ^ and $ look at the original string.
RECURSIVE SubLineEnds(_, _, _)
SubLineEnds(s, i, out) ==
    IF i > Len(s) THEN out
    ELSE IF ~IsSpace(s[i]) THEN SubLineEnds(s, i + 1, Append(out, s[i]))
    ELSE LET runEnd == SpaceRunEnd(s, i)
             atLineStart == i = 1 \/ s[i - 1] = "\n"
             \* ends e of a match of \s+$ : s[i..e] whitespace, then end or newline
             lineEnds == {e \in i .. runEnd : e = Len(s) \/ s[e + 1] = "\n"}
         IN  IF atLineStart THEN SubLineEnds(s, runEnd + 1, out)
             ELSE IF lineEnds # {} THEN SubLineEnds(s, Max(lineEnds) + 1, out)
             ELSE SubLineEnds(s, i + 1, Append(out, s[i]))

\* the text passed on with every character kept
SubDisallowedKept(s) == s

\* re.sub(r'[^\w\s...]', '', s)
SubDisallowed(s) == SelectSeq(s, IsAllowed)

\* re.sub(r'(\w)(\d)', r'\1 \2', s): matches do not overlap, so the digit of
\* one match is never the word character of the next
RECURSIVE SubWordDigit(_, _, _)
SubWordDigit(s, i, out) ==
    IF i > Len(s) THEN out
    ELSE IF i < Len(s) /\ IsWordChar(s[i]) /\ IsDigit(s[i + 1])
         THEN SubWordDigit(s, i + 2, out \o <<s[i], " ", s[i + 1]>>)
         ELSE SubWordDigit(s, i + 1, Append(out, s[i]))

\* re.sub(r'(\d)([A-Z])', r'\1 \2', s)
RECURSIVE SubDigitUpper(_, _, _)
SubDigitUpper(s, i, out) ==
    IF i > Len(s) THEN out
    ELSE IF i < Len(s) /\ IsDigit(s[i]) /\ IsUpper(s[i + 1])
         THEN SubDigitUpper(s, i + 2, out \o <<s[i], " ", s[i + 1]>>)
         ELSE SubDigitUpper(s, i + 1, Append(out, s[i]))

_clean_text(t) ==
    IF t = <<>> THEN <<>>
    ELSE LET t1 == SubNewlines(t, 1, <<>>)
             t2 == SubBlanks(t1, 1, <<>>)
             t3 == SubLineEnds(t2, 1, <<>>)
             t4 == SubDisallowed(t3)
             t5 == SubWordDigit(t4, 1, <<>>)
         IN  SubDigitUpper(t5, 1, <<>>)

\* raw text: a letter, a capital, a digit, blank, tab, newline and "|", a
\* character outside the allow-list
CleanChars == {"a", "A", "1", " ", "\t", "\n", "|"}
RawTexts   == SeqsUpTo(CleanChars, MaxRaw)

InitClean ==
    /\ raw \in RawTexts
    /\ npc = "idle"
    /\ once = <<>>
    /\ twice = <<>>
    /\ ChunkAtRest
    /\ ExtractAtRest
    /\ InfoAtRest
    /\ AiAtRest

\* text = self._clean_text(raw)
CleanText ==
    /\ npc = "idle"
    /\ once' = _clean_text(raw)
    /\ npc' = "once"
    /\ UNCHANGED <<raw, twice>>
    /\ UNCHANGED <<chunkVars, extractVars, infoVars, aiVars>>

\* the result is handed to _clean_text again
CleanTextAgain ==
    /\ npc = "once"
    /\ twice' = _clean_text(once)
    /\ npc' = "twice"
    /\ UNCHANGED <<raw, once>>
    /\ UNCHANGED <<chunkVars, extractVars, infoVars, aiVars>>

NextClean ==
    \/ CleanText
    \/ CleanTextAgain

SpecClean == InitClean /\ [][NextClean]_vars

-----------------------------------------------------------------------------
(* Properties of normalisation *)

Blank(c) == c \in {" ", "\t"}

\* the NormalizedText invariant of the data model
NoTripleNewline(s) ==
    ~ \E i \in 1 .. Len(s) - 2 : s[i] = "\n" /\ s[i + 1] = "\n" /\ s[i + 2] = "\n"

NoDoubleBlank(s) ==
    ~ \E i \in 1 .. Len(s) - 1 : Blank(s[i]) /\ Blank(s[i + 1])

NoBlankAtLineEnds(s) ==
    ~ \E i \in 1 .. Len(s) :
        /\ Blank(s[i])
        /\ (i = 1 \/ s[i - 1] = "\n" \/ i = Len(s) \/ s[i + 1] = "\n")

NormalizedText(s) == NoTripleNewline(s) /\ NoDoubleBlank(s) /\ NoBlankAtLineEnds(s)

\* C5: _clean_text is idempotent: cleaning a cleaned text changes nothing.
C5_Idempotent ==
    npc = "twice" => twice = once

\* C6: the result of _clean_text has no run of three newlines, no run of two
\* blanks and no line that starts or ends with a blank.
C6_Normalized ==
    npc = "once" => NormalizedText(once)

\* C14: two non-blank lines separated by whitespace holding two or more
\* newlines come out separated by exactly two newlines.
C14_ParagraphBreakKept ==
    (/\ npc # "idle"
     /\ Len(raw) >= 4
     /\ raw[1] \in Lowercase \cup Uppercase
     /\ raw[Len(raw)] \in Lowercase \cup Uppercase
     /\ \A i \in 2 .. Len(raw) - 1 : IsSpace(raw[i])
     /\ Cardinality({i \in 2 .. Len(raw) - 1 : raw[i] = "\n"}) >= 2)
    => once = <<raw[1], "\n", "\n", raw[Len(raw)]>>

\* C15: in a text of letters and digits, one space is put where a letter is
\* followed by a digit and where a digit is followed by a capital, and
\* nowhere else.
C15_BoundaryRepair ==
    (/\ npc # "idle"
     /\ \A i \in 1 .. Len(raw) : raw[i] \in Lowercase \cup Uppercase \cup Digits)
    => LET boundary(c, e) ==
               \/ c \in Lowercase \cup Uppercase /\ e \in Digits
               \/ c \in Digits /\ e \in Uppercase
           repaired[i \in 0 .. Len(raw)] ==
               IF i = 0 THEN <<>>
               ELSE repaired[i - 1]
                    \o (IF i > 1 /\ boundary(raw[i - 1], raw[i]) THEN <<" ">> ELSE <<>>)
                    \o <<raw[i]>>
       IN  once = repaired[Len(raw)]

\* C16: the empty string and every string of spaces, tabs and newlines is
\* cleaned to the empty string.
C16_WhitespaceToEmpty ==
    (npc # "idle" /\ \A i \in 1 .. Len(raw) : IsSpace(raw[i])) => once = <<>>

\* C16 witness: a text of blanks and newlines has been cleaned
C16_Witness ==
    /\ npc = "once"
    /\ Len(raw) >= 3
    /\ \A i \in 1 .. Len(raw) : IsSpace(raw[i])
    /\ \E i, j, k \in 1 .. Len(raw) : raw[i] = " " /\ raw[j] = "\n" /\ raw[k] = "\t"
    /\ once = <<>>

\* C26: the characters of _clean_text(x) that are not whitespace are those of
\* x that are not whitespace and are in the allow-list, in the same order.
C26_OnlyDeletesDisallowed ==
    npc # "idle" =>
        LET Visible(c) == ~IsSpace(c)
            Kept(c)    == ~IsSpace(c) /\ (IsWordChar(c) \/ c \in AllowedPunct)
        IN  SelectSeq(once, Visible) = SelectSeq(raw, Kept)

\* C26 witness: a character was deleted and a space was inserted
C26_Witness ==
    /\ npc = "once"
    /\ \E i \in 1 .. Len(raw) : raw[i] = "|"
    /\ \E i \in 1 .. Len(raw) - 1 : raw[i] = "a" /\ raw[i + 1] = "1"
    /\ \A i \in 1 .. Len(raw) : ~IsSpace(raw[i])
    /\ \E i \in 1 .. Len(once) : once[i] = " "

-----------------------------------------------------------------------------
(* DocumentProcessor.extract_text: format detection and dispatch *)

\* how a call leaves: a returned str or a raised exception with its str(e)
NoOutcome        == [kind |-> "none", type |-> "", msg |-> <<>>, value |-> <<>>]
Returned(v)      == [kind |-> "return", type |-> "str", msg |-> <<>>, value |-> v]
Raised(type, m)  == [kind |-> "raise", type |-> type, msg |-> m, value |-> <<>>]

\* str.lower() on one character and on a str
LowerChar(c) ==
    IF c \in Uppercase THEN (CHOOSE p \in CasePairs : p[1] = c)[2] ELSE c

Lower(s) == [i \in 1 .. Len(s) |-> LowerChar(s[i])]

\* Path(p).name: the last component of the path
BaseName(path) ==
    LET i == RFind(path, "/", 0, Len(path))
    IN  Slice(path, i + 1, Len(path))

\* Path(p).suffix: from the last dot of the name on, unless the dot is the
\* first or the last character of the name
Suffix(path) ==
    LET name == BaseName(path)
        i == RFind(name, ".", 0, Len(name))
    IN  IF 0 < i /\ i < Len(name) - 1 THEN Slice(name, i, Len(name)) ELSE <<>>

PdfExt  == <<".", "p", "d", "f">>
DocxExt == <<".", "d", "o", "c", "x">>
TxtExt  == <<".", "t", "x", "t">>

\* the keys of SUPPORTED_FORMATS
SUPPORTED_FORMATS == {PdfExt, DocxExt, TxtExt}

\* the suffix as it stands, the call of lower() lost
get_file_type_as_is(path) == Suffix(path)

get_file_type(path) == Lower(Suffix(path))

is_supported_format(path) == get_file_type(path) \in SUPPORTED_FORMATS

\* the if/elif chain inside the try block: the extractor an extension selects
Dispatch(ext) ==
    IF ext = PdfExt THEN "_extract_pdf_text"
    ELSE IF ext = DocxExt THEN "_extract_docx_text"
    ELSE IF ext = TxtExt THEN "_extract_txt_text"
    ELSE "unsupported"

\* the handler passing the exception on as it came
Reraised(m) == Raised("Exception", m)

\* except Exception as e: raise Exception(f"Failed to extract text: {str(e)}")
Wrapped(m) == Raised("Exception", <<"Failed to extract text: ">> \o m)

\* what the try block of extract_text does for an extension
TryDispatch(ext, steps) ==
    IF Dispatch(ext) = "unsupported"
    THEN [trace |-> steps, file_ext |-> ext, epc |-> "done",
          outcome |-> Wrapped(<<"Unsupported file format: ">> \o ext)]
    ELSE [trace |-> Append(steps, Dispatch(ext)), file_ext |-> ext,
          epc |-> Dispatch(ext), outcome |-> NoOutcome]

\* extract_text with the format looked at before the existence of the file
ExtractTextEntryFormatFirst(path, exists) ==
    IF ~is_supported_format(path)
    THEN [trace |-> <<"get_file_type", "is_supported_format">>,
          file_ext |-> get_file_type(path), epc |-> "done",
          outcome |-> Raised("ValueError",
                             <<"Unsupported file format: ">> \o get_file_type(path))]
    ELSE IF ~exists
    THEN [trace |-> <<"get_file_type", "is_supported_format", "os.path.exists">>,
          file_ext |-> get_file_type(path), epc |-> "done",
          outcome |-> Raised("FileNotFoundError", <<"File not found: ">> \o path)]
    ELSE TryDispatch(get_file_type(path),
                     <<"get_file_type", "is_supported_format", "os.path.exists">>)

\* extract_text without the format check in front of the try block
ExtractTextEntryNoFormatCheck(path, exists) ==
    IF ~exists
    THEN [trace |-> <<"os.path.exists">>, file_ext |-> <<>>, epc |-> "done",
          outcome |-> Raised("FileNotFoundError", <<"File not found: ">> \o path)]
    ELSE TryDispatch(get_file_type(path), <<"os.path.exists", "get_file_type">>)

\* extract_text from its entry to the call of an extractor: the existence
\* check, the format check, then the dispatch inside the try block
ExtractTextEntry(path, exists) ==
    IF ~exists
    THEN [trace |-> <<"os.path.exists">>, file_ext |-> <<>>, epc |-> "done",
          outcome |-> Raised("FileNotFoundError", <<"File not found: ">> \o path)]
    ELSE IF ~is_supported_format(path)
    THEN [trace |-> <<"os.path.exists", "get_file_type", "is_supported_format">>,
          file_ext |-> get_file_type(path), epc |-> "done",
          outcome |-> Raised("ValueError",
                             <<"Unsupported file format: ">> \o get_file_type(path))]
    ELSE TryDispatch(get_file_type(path),
                     <<"os.path.exists", "get_file_type", "is_supported_format">>)

-----------------------------------------------------------------------------
(* What the libraries find in a file *)

\* a byte no codec decodes, and the character errors='replace' puts for it
BadByte         == "0xFF"
ReplacementChar == "U+FFFD"

\* text of one page (PDF), one paragraph (DOCX) or one line (TXT)
PartTexts == {<<>>, <<"a", "1">>, <<BadByte>>}

\* the page operation that raises, if any (at = 0: none does)
NoFault == [at |-> 0, op |-> "none"]
Faults  == {NoFault}
           \cup {[at |-> k, op |-> o] : k \in 1 .. MaxPages, o \in {"load_page", "get_text"}}

\* the rows of the tables of a DOCX file, each a sequence of cell texts
TableRows == {<<>>, << <<<<"a">>, <<" ">>, <<"b">>>> >>}

\* chardet.detect(raw)['encoding']; "EUC-TW" is a name chardet reports and the
\* codecs registry does not know
Detected    == {"None", "ascii", "EUC-TW"}
KnownCodecs == {"ascii", "utf-8"}

Documents ==
    [opens    : BOOLEAN,
     parts    : SeqsUpTo(PartTexts, MaxPages),
     fault    : Faults,
     rows     : TableRows,
     detected : Detected]

FilePaths ==
    {<<"a", ".", "p", "d", "f">>, <<"a", ".", "P", "D", "F">>, <<"a", ".", "P", "d", "f">>,
     <<"a", ".", "d", "o", "c", "x">>, <<"a", ".", "D", "o", "c", "X">>,
     <<"a", ".", "t", "x", "t">>, <<"a", ".", "T", "X", "T">>,
     <<"a", ".", "r", "t", "f">>, <<"a", ".", "d", "o", "c">>, <<"a", ".", "m", "d">>,
     <<"a", ".", "p", "d", "f", ".", "R", "T", "F">>,
     <<"a">>, <<".", "p", "d", "f">>, <<"d", ".", "t", "x", "t", "/", "a">>}

-----------------------------------------------------------------------------
(* The extractors of DocumentProcessor *)

InitExtract ==
    /\ file_path \in FilePaths
    /\ file_exists \in BOOLEAN
    /\ document \in Documents
    /\ entry = "none"
    /\ epc = "idle"
    /\ file_ext = <<>>
    /\ page_num = 0
    /\ acc = <<>>
    /\ handle = "none"
    /\ trace = <<>>
    /\ outcome = NoOutcome
    /\ ChunkAtRest
    /\ CleanAtRest
    /\ InfoAtRest
    /\ AiAtRest

\* extract_text up to the call of the extractor
ExtractTextCall ==
    /\ epc = "idle"
    /\ entry' = "DocumentProcessor.extract_text"
    /\ LET r == ExtractTextEntry(file_path, file_exists)
       IN  /\ trace' = r.trace
           /\ file_ext' = r.file_ext
           /\ epc' = r.epc
           /\ outcome' = r.outcome
    /\ UNCHANGED <<file_path, file_exists, document, page_num, acc, handle>>
    /\ UNCHANGED <<chunkVars, cleanVars, infoVars, aiVars>>

\* the handler of _extract_pdf_text giving back the pages read so far
PdfFailureKeepsText(cause) == Returned(Strip(acc))

\* an exception inside _extract_pdf_text: wrapped by its own handler, then by
\* the handler of extract_text; nothing on the way closes the document
PdfFailure(cause) ==
    Wrapped(<<"PDF processing failed: ", cause>>)

\* pdf_document = fitz.Document(pdf_path)
PdfOpen ==
    /\ epc = "_extract_pdf_text"
    /\ trace' = Append(trace, "fitz.Document")
    /\ acc' = <<>>
    /\ page_num' = 0
    /\ IF document.opens
       THEN /\ handle' = "open"
            /\ epc' = "pdf_page"
            /\ UNCHANGED outcome
       ELSE /\ outcome' = PdfFailure("cannot open document")
            /\ epc' = "done"
            /\ UNCHANGED handle
    /\ UNCHANGED <<file_path, file_exists, document, entry, file_ext>>
    /\ UNCHANGED <<chunkVars, cleanVars, infoVars, aiVars>>

\* one pass through the page loop: load_page, get_text, _clean_text, text +=
PdfPage ==
    /\ epc = "pdf_page"
    /\ page_num < Len(document.parts)
    /\ IF document.fault.at = page_num + 1
       THEN /\ trace' = IF document.fault.op = "load_page"
                        THEN Append(trace, "load_page")
                        ELSE trace \o <<"load_page", "get_text">>
            /\ outcome' = PdfFailure(document.fault.op)
            /\ epc' = "done"
            /\ UNCHANGED <<acc, page_num>>
       ELSE /\ trace' = trace \o <<"load_page", "get_text", "_clean_text">>
            /\ acc' = acc \o _clean_text(document.parts[page_num + 1]) \o <<"\n", "\n">>
            /\ page_num' = page_num + 1
            /\ UNCHANGED <<outcome, epc>>
    /\ UNCHANGED <<file_path, file_exists, document, entry, file_ext, handle>>
    /\ UNCHANGED <<chunkVars, cleanVars, infoVars, aiVars>>

\* after the loop: pdf_document.close(); return text.strip()
PdfClose ==
    /\ epc = "pdf_page"
    /\ page_num = Len(document.parts)
    /\ trace' = Append(trace, "close")
    /\ handle' = "closed"
    /\ outcome' = Returned(Strip(acc))
    /\ epc' = "done"
    /\ UNCHANGED <<file_path, file_exists, document, entry, file_ext, page_num, acc>>
    /\ UNCHANGED <<chunkVars, cleanVars, infoVars, aiVars>>

\* the paragraph loop of _extract_docx_text
RECURSIVE ParagraphText(_)
ParagraphText(ps) ==
    IF ps = <<>> THEN <<>>
    ELSE (IF Strip(Head(ps)) # <<>> THEN Head(ps) \o <<"\n">> ELSE <<>>)
         \o ParagraphText(Tail(ps))

\* row_text: the stripped texts of the cells that are not blank
RECURSIVE RowCells(_)
RowCells(cells) ==
    IF cells = <<>> THEN <<>>
    ELSE (IF Strip(Head(cells)) # <<>> THEN <<Strip(Head(cells))>> ELSE <<>>)
         \o RowCells(Tail(cells))

\* " | ".join(row_text)
RECURSIVE JoinCells(_)
JoinCells(cs) ==
    IF cs = <<>> THEN <<>>
    ELSE IF Len(cs) = 1 THEN Head(cs)
    ELSE Head(cs) \o <<" ", "|", " ">> \o JoinCells(Tail(cs))

\* the table loops of _extract_docx_text
RECURSIVE TableText(_)
TableText(rows) ==
    IF rows = <<>> THEN <<>>
    ELSE (IF RowCells(Head(rows)) # <<>>
          THEN JoinCells(RowCells(Head(rows))) \o <<"\n">> ELSE <<>>)
         \o TableText(Tail(rows))

\* _extract_docx_text, the whole method
ExtractDocx ==
    /\ epc = "_extract_docx_text"
    /\ trace' = Append(trace, "WordDocument")
    /\ outcome' =
         IF document.opens
         THEN Returned(Strip(_clean_text(ParagraphText(document.parts)
                                         \o TableText(document.rows))))
         ELSE Wrapped(<<"DOCX processing failed: ", "cannot open document">>)
    /\ epc' = "done"
    /\ UNCHANGED <<file_path, file_exists, document, entry, file_ext,
                   page_num, acc, handle>>
    /\ UNCHANGED <<chunkVars, cleanVars, infoVars, aiVars>>

\* the bytes of a TXT file: its lines, each ended by a newline
RECURSIVE FileBytes(_)
FileBytes(lines) ==
    IF lines = <<>> THEN <<>>
    ELSE Head(lines) \o <<"\n">> \o FileBytes(Tail(lines))

\* f.read() under errors='replace'
Decode(bytes) ==
    [i \in 1 .. Len(bytes) |-> IF bytes[i] = BadByte THEN ReplacementChar ELSE bytes[i]]

\* _extract_txt_text, the whole method
ExtractTxt ==
    /\ epc = "_extract_txt_text"
    /\ LET encoding == IF document.detected = "None" THEN "utf-8" ELSE document.detected
       IN  IF ~document.opens
           THEN /\ trace' = Append(trace, "open")
                /\ outcome' = Wrapped(<<"TXT processing failed: ", "cannot open file">>)
           ELSE IF encoding \notin KnownCodecs
           THEN /\ trace' = trace \o <<"open", "chardet.detect", "open">>
                /\ outcome' = Wrapped(<<"TXT processing failed: ", "unknown encoding: ", encoding>>)
           ELSE /\ trace' = trace \o <<"open", "chardet.detect", "open", "_clean_text">>
                /\ outcome' = Returned(Strip(_clean_text(Decode(FileBytes(document.parts)))))
    /\ epc' = "done"
    /\ UNCHANGED <<file_path, file_exists, document, entry, file_ext,
                   page_num, acc, handle>>
    /\ UNCHANGED <<chunkVars, cleanVars, infoVars, aiVars>>

-----------------------------------------------------------------------------
(* pdf_processor.PDFProcessor: extract_text, clean_text, get_paper_statistics *)

\* does the literal lit stand at index i of s
LiteralAt(s, i, lit) ==
    /\ i + Len(lit) - 1 <= Len(s)
    /\ \A k \in 1 .. Len(lit) : s[i + k - 1] = lit[k]

\* last index of the maximal run of digits that starts at index i
RECURSIVE DigitRunEnd(_, _)
DigitRunEnd(s, i) ==
    IF i < Len(s) /\ IsDigit(s[i + 1]) THEN DigitRunEnd(s, i + 1) ELSE i

\* re.sub(r'\n+', '\n', s)
RECURSIVE PdfSubNewlines(_, _, _)
PdfSubNewlines(s, i, out) ==
    IF i > Len(s) THEN out
    ELSE IF s[i] = "\n" /\ i > 1 /\ s[i - 1] = "\n"
         THEN PdfSubNewlines(s, i + 1, out)
         ELSE PdfSubNewlines(s, i + 1, Append(out, s[i]))

\* re.sub(r'\s+', ' ', s)
RECURSIVE PdfSubSpaces(_, _, _)
PdfSubSpaces(s, i, out) ==
    IF i > Len(s) THEN out
    ELSE IF IsSpace(s[i])
         THEN PdfSubSpaces(s, SpaceRunEnd(s, i) + 1, Append(out, " "))
         ELSE PdfSubSpaces(s, i + 1, Append(out, s[i]))

\* re.sub(r'Page \d+', '', s)
RECURSIVE PdfSubPageNumbers(_, _, _)
PdfSubPageNumbers(s, i, out) ==
    IF i > Len(s) THEN out
    ELSE IF /\ LiteralAt(s, i, <<"P", "a", "g", "e", " ">>)
            /\ i + 5 <= Len(s)
            /\ IsDigit(s[i + 5])
         THEN PdfSubPageNumbers(s, DigitRunEnd(s, i + 5) + 1, out)
         ELSE PdfSubPageNumbers(s, i + 1, Append(out, s[i]))

\* re.sub(r'\d+\s*\n', '', s): the digits, then the whitespace after them up to
\* its last newline
RECURSIVE PdfSubNumberLines(_, _, _)
PdfSubNumberLines(s, i, out) ==
    IF i > Len(s) THEN out
    ELSE IF IsDigit(s[i])
         THEN LET d == DigitRunEnd(s, i)
                  newlines == IF d < Len(s) /\ IsSpace(s[d + 1])
                              THEN {k \in d + 1 .. SpaceRunEnd(s, d + 1) : s[k] = "\n"}
                              ELSE {}
              IN  IF newlines # {}
                  THEN PdfSubNumberLines(s, Max(newlines) + 1, out)
                  ELSE PdfSubNumberLines(s, i + 1, Append(out, s[i]))
         ELSE PdfSubNumberLines(s, i + 1, Append(out, s[i]))

\* re.sub(r'([a-z])([A-Z])', r'\1 \2', s)
RECURSIVE PdfSubCamelCase(_, _, _)
PdfSubCamelCase(s, i, out) ==
    IF i > Len(s) THEN out
    ELSE IF i < Len(s) /\ s[i] \in Lowercase /\ s[i + 1] \in Uppercase
         THEN PdfSubCamelCase(s, i + 2, out \o <<s[i], " ", s[i + 1]>>)
         ELSE PdfSubCamelCase(s, i + 1, Append(out, s[i]))

\* re.sub(r'\[\d+\]', ' [REF] ', s)
RECURSIVE PdfSubReferences(_, _, _)
PdfSubReferences(s, i, out) ==
    IF i > Len(s) THEN out
    ELSE IF /\ s[i] = "["
            /\ i < Len(s)
            /\ IsDigit(s[i + 1])
            /\ DigitRunEnd(s, i + 1) < Len(s)
            /\ s[DigitRunEnd(s, i + 1) + 1] = "]"
         THEN PdfSubReferences(s, DigitRunEnd(s, i + 1) + 2,
                               out \o <<" ", "[", "R", "E", "F", "]", " ">>)
         ELSE PdfSubReferences(s, i + 1, Append(out, s[i]))

\* PDFProcessor.clean_text
clean_text(t) ==
    LET t1 == PdfSubNewlines(t, 1, <<>>)
        t2 == PdfSubSpaces(t1, 1, <<>>)
        t3 == PdfSubPageNumbers(t2, 1, <<>>)
        t4 == PdfSubNumberLines(t3, 1, <<>>)
        t5 == PdfSubCamelCase(t4, 1, <<>>)
    IN  Strip(PdfSubReferences(t5, 1, <<>>))

\* except Exception as e: raise Exception(f"Failed to process PDF: {str(e)}")
PdfProcessorFailure(cause) ==
    Raised("Exception", <<"Failed to process PDF: ", cause>>)

\* get_paper_statistics catches what extract_text raises and returns {}
AfterExtractFailure(m) ==
    IF entry = "PDFProcessor.get_paper_statistics"
    THEN [kind |-> "return", type |-> "dict", msg |-> <<>>, value |-> <<>>]
    ELSE PdfProcessorFailure(m)

\* entry of PDFProcessor.extract_text, called directly or as the first
\* statement of get_paper_statistics: doc = fitz.open(pdf_path)
PdfProcessorCall ==
    /\ epc = "idle"
    /\ \E e \in {"PDFProcessor.extract_text", "PDFProcessor.get_paper_statistics"} :
         /\ entry' = e
         /\ IF file_exists /\ document.opens
            THEN /\ handle' = "open"
                 /\ epc' = "pp_page"
                 /\ UNCHANGED outcome
            ELSE /\ outcome' = IF e = "PDFProcessor.get_paper_statistics"
                               THEN [kind |-> "return", type |-> "dict",
                                     msg |-> <<>>, value |-> <<>>]
                               ELSE PdfProcessorFailure("cannot open document")
                 /\ epc' = "done"
                 /\ UNCHANGED handle
    /\ trace' = <<"fitz.open">>
    /\ acc' = <<>>
    /\ page_num' = 0
    /\ UNCHANGED <<file_path, file_exists, document, file_ext>>
    /\ UNCHANGED <<chunkVars, cleanVars, infoVars, aiVars>>

\* one pass through the page loop: load_page, text += page.get_text()
PdfProcessorPage ==
    /\ epc = "pp_page"
    /\ page_num < Len(document.parts)
    /\ IF document.fault.at = page_num + 1
       THEN /\ trace' = IF document.fault.op = "load_page"
                        THEN Append(trace, "load_page")
                        ELSE trace \o <<"load_page", "get_text">>
            /\ outcome' = AfterExtractFailure(document.fault.op)
            /\ epc' = "done"
            /\ UNCHANGED <<acc, page_num>>
       ELSE /\ trace' = trace \o <<"load_page", "get_text">>
            /\ acc' = acc \o document.parts[page_num + 1]
            /\ page_num' = page_num + 1
            /\ UNCHANGED <<outcome, epc>>
    /\ UNCHANGED <<file_path, file_exists, document, entry, file_ext, handle>>
    /\ UNCHANGED <<chunkVars, cleanVars, infoVars, aiVars>>

\* after the loop: doc.close(); return self.clean_text(text)
PdfProcessorClose ==
    /\ epc = "pp_page"
    /\ page_num = Len(document.parts)
    /\ trace' = trace \o <<"close", "clean_text">>
    /\ handle' = "closed"
    /\ acc' = clean_text(acc)
    /\ IF entry = "PDFProcessor.get_paper_statistics"
       THEN /\ epc' = "pp_stats"
            /\ UNCHANGED outcome
       ELSE /\ epc' = "done"
            /\ outcome' = Returned(clean_text(acc))
    /\ UNCHANGED <<file_path, file_exists, document, entry, file_ext, page_num>>
    /\ UNCHANGED <<chunkVars, cleanVars, infoVars, aiVars>>

\* the rest of get_paper_statistics: the document is opened a second time,
\* counted and closed; the value keeps page_count, character_count, word_count
PaperStatistics ==
    /\ epc = "pp_stats"
    /\ trace' = trace \o <<"fitz.open", "close">>
    /\ handle' = "closed"
    /\ outcome' = [kind |-> "return", type |-> "dict", msg |-> <<>>,
                   value |-> <<Len(document.parts), Len(acc), Len(Split(acc))>>]
    /\ epc' = "done"
    /\ UNCHANGED <<file_path, file_exists, document, entry, file_ext, page_num, acc>>
    /\ UNCHANGED <<chunkVars, cleanVars, infoVars, aiVars>>

NextExtract ==
    \/ ExtractTextCall
    \/ PdfOpen
    \/ PdfPage
    \/ PdfClose
    \/ ExtractDocx
    \/ ExtractTxt
    \/ PdfProcessorCall
    \/ PdfProcessorPage
    \/ PdfProcessorClose
    \/ PaperStatistics

SpecExtract == InitExtract /\ [][NextExtract]_vars

-----------------------------------------------------------------------------
(* DocumentProcessor.extract_text on an existing PDF of several pages *)

\* page.get_text(): nothing (a page without text layer) or some text
PdfPageTexts == {<<>>, <<"a">>, <<"a", "1">>}

PdfDocuments ==
    [opens    : BOOLEAN,
     parts    : SeqsUpTo(PdfPageTexts, MaxPdfPages),
     fault    : {NoFault},
     rows     : {<<>>},
     detected : {"None"}]

InitPdfPages ==
    /\ file_path = <<"a", ".", "p", "d", "f">>
    /\ file_exists = TRUE
    /\ document \in PdfDocuments
    /\ entry = "none"
    /\ epc = "idle"
    /\ file_ext = <<>>
    /\ page_num = 0
    /\ acc = <<>>
    /\ handle = "none"
    /\ trace = <<>>
    /\ outcome = NoOutcome
    /\ ChunkAtRest
    /\ CleanAtRest
    /\ InfoAtRest
    /\ AiAtRest

NextPdfPages ==
    \/ ExtractTextCall
    \/ PdfOpen
    \/ PdfPage
    \/ PdfClose

SpecPdfPages == InitPdfPages /\ [][NextPdfPages]_vars

-----------------------------------------------------------------------------
(* DocumentProcessor.get_document_info *)

\* os.path.basename(file_path): what follows the last "/"
os_path_basename(path) ==
    LET i == RFind(path, "/", 0, Len(path))
    IN  Slice(path, i + 1, Len(path))

\* os.path.getsize(file_path): the number of bytes the file holds
os_path_getsize(doc) == Len(FileBytes(doc.parts))

\* self.SUPPORTED_FORMATS.get(file_ext, 'Unknown')
FormatName(ext) ==
    IF ext = PdfExt THEN "PDF Document"
    ELSE IF ext = DocxExt THEN "Microsoft Word Document"
    ELSE IF ext = TxtExt THEN "Plain Text File"
    ELSE "Unknown"

\* the dict built before the try block; file_size_mb, a rounding of
\* file_size, is left out
InfoHead(path, doc) ==
    [kind |-> "pending", type |-> "",
     filename |-> os_path_basename(path),
     extension |-> get_file_type(path),
     format_name |-> FormatName(get_file_type(path)),
     file_size |-> os_path_getsize(doc),
     character_count |-> 0, word_count |-> 0,
     extraction_successful |-> FALSE, error |-> <<>>]

\* the except clause letting the exception of extract_text through
InfoUpdateReraises(head, out) ==
    IF out.kind = "return"
    THEN [head EXCEPT !.kind = "return", !.type = "dict",
                      !.character_count = Len(out.value),
                      !.word_count = Len(Split(out.value)),
                      !.extraction_successful = TRUE]
    ELSE [NoInfo EXCEPT !.kind = "raise", !.type = out.type, !.error = out.msg]

\* the try block around extract_text and its except clause: info.update(...)
InfoUpdate(head, out) ==
    IF out.kind = "return"
    THEN [head EXCEPT !.kind = "return", !.type = "dict",
                      !.character_count = Len(out.value),
                      !.word_count = Len(Split(out.value)),
                      !.extraction_successful = TRUE]
    ELSE [head EXCEPT !.kind = "return", !.type = "dict",
                      !.character_count = 0,
                      !.word_count = 0,
                      !.extraction_successful = FALSE,
                      !.error = out.msg]

\* get_document_info up to the extractor that extract_text calls
GetDocumentInfoCall ==
    /\ epc = "idle"
    /\ entry' = "DocumentProcessor.get_document_info"
    /\ IF ~file_exists
       THEN /\ info' = [NoInfo EXCEPT !.kind = "raise", !.type = "FileNotFoundError",
                                      !.error = <<"File not found: ">> \o file_path]
            /\ trace' = <<"os.path.exists">>
            /\ epc' = "done"
            /\ UNCHANGED <<file_ext, outcome>>
       ELSE LET r == ExtractTextEntry(file_path, file_exists)
            IN  /\ info' = InfoHead(file_path, document)
                /\ trace' = <<"os.path.exists", "get_file_type", "os.path.getsize">>
                             \o r.trace
                /\ file_ext' = r.file_ext
                /\ epc' = r.epc
                /\ outcome' = r.outcome
    /\ UNCHANGED <<file_path, file_exists, document, page_num, acc, handle>>
    /\ UNCHANGED <<chunkVars, cleanVars, aiVars>>

\* extract_text has returned or raised: the dict is completed and returned
GetDocumentInfoReturn ==
    /\ entry = "DocumentProcessor.get_document_info"
    /\ epc = "done"
    /\ info.kind = "pending"
    /\ info' = InfoUpdate(info, outcome)
    /\ UNCHANGED <<file_path, file_exists, document, entry, epc, file_ext,
                   page_num, acc, handle, trace, outcome>>
    /\ UNCHANGED <<chunkVars, cleanVars, aiVars>>

NextInfo ==
    \/ GetDocumentInfoCall
    \/ PdfOpen
    \/ PdfPage
    \/ PdfClose
    \/ ExtractDocx
    \/ ExtractTxt
    \/ GetDocumentInfoReturn

SpecInfo == InitExtract /\ [][NextInfo]_vars

-----------------------------------------------------------------------------
(* ai_provider_factory: AIProviderFactory and UnifiedAIAnalyzer *)

GroqKey   == <<"g", "r", "o", "q">>
GeminiKey == <<"g", "e", "m", "i", "n", "i">>

\* the values of AIProviderFactory.PROVIDERS, in the order of the dict
PROVIDERS == <<GroqKey, GeminiKey>>

\* provider names a caller passes: the two providers in two spellings and a
\* name that is no provider
ProviderNames ==
    {GroqKey, <<"G", "r", "o", "q">>, GeminiKey, <<"G", "e", "m", "i", "n", "i">>,
     <<"f", "o", "o">>}

\* the provider argument of get_analyzer: None or a name
ProviderArgs ==
    {[is_none |-> TRUE, name |-> <<>>]}
    \cup {[is_none |-> FALSE, name |-> n] : n \in ProviderNames}

\* AIProviderFactory.validate_provider
validate_provider(provider) ==
    Lower(provider) \in {Lower(PROVIDERS[i]) : i \in 1 .. Len(PROVIDERS)}

\* AIProviderFactory.create_analyzer: whether it returns an analyzer, given
\* whether the constructor of the provider's analyzer goes through
create_analyzer(provider, constructor_ok) ==
    IF Lower(provider) = GroqKey THEN constructor_ok
    ELSE IF Lower(provider) = GeminiKey THEN constructor_ok
    ELSE FALSE

\* how many analyzers of a provider were constructed
CreatedCount(cr, key) == Cardinality({i \in 1 .. Len(cr) : cr[i] = key})

\* get_analyzer that constructs an analyzer at every call
get_analyzer_uncached(an, cr, provider, constructor_ok) ==
    LET key == Lower(provider)
    IN  IF create_analyzer(key, constructor_ok)
        THEN LET a == [key |-> key, id |-> CreatedCount(cr, key) + 1]
             IN  [analyzers |-> {x \in an : x.key # key} \cup {a},
                  created |-> Append(cr, key), raised |-> FALSE, analyzer |-> a]
        ELSE [analyzers |-> an, created |-> cr, raised |-> TRUE,
              analyzer |-> [key |-> key, id |-> 0]]

\* UnifiedAIAnalyzer.get_analyzer for a provider name: the cache and the
\* creation count after the call, whether it raised, the analyzer returned
get_analyzer(an, cr, provider, constructor_ok) ==
    LET key == Lower(provider)
    IN  IF \E x \in an : x.key = key
        THEN [analyzers |-> an, created |-> cr, raised |-> FALSE,
              analyzer |-> CHOOSE x \in an : x.key = key]
        ELSE IF create_analyzer(key, constructor_ok)
        THEN LET a == [key |-> key, id |-> CreatedCount(cr, key) + 1]
             IN  [analyzers |-> {x \in an : x.key # key} \cup {a},
                  created |-> Append(cr, key), raised |-> FALSE, analyzer |-> a]
        ELSE [analyzers |-> an, created |-> cr, raised |-> TRUE,
              analyzer |-> [key |-> key, id |-> 0]]

\* the fallback being groq whatever the default
FallbackAlwaysGroq(default) == GroqKey

\* fallback = "gemini" if default_provider.lower() == "groq" else "groq"
Fallback(default) == IF Lower(default) = GroqKey THEN GeminiKey ELSE GroqKey

\* UnifiedAIAnalyzer(default_provider)
Construct ==
    /\ ppc = "none"
    /\ \E d \in ProviderNames, ok1 \in BOOLEAN, ok2 \in BOOLEAN :
         LET r1 == get_analyzer({}, <<>>, Lower(d), ok1)
             fb == Fallback(d)
             r2 == get_analyzer(r1.analyzers, r1.created, fb, ok2)
         IN  /\ default_provider' = d
             /\ call' = [op |-> "__init__", is_none |-> FALSE, name |-> d]
             /\ IF ~r1.raised
                THEN /\ current_provider' = Lower(d)
                     /\ analyzers' = r1.analyzers
                     /\ created' = r1.created
                     /\ init_tried' = <<[key |-> Lower(d), ok |-> TRUE]>>
                     /\ ppc' = "ready"
                     /\ result' = [kind |-> "object", value |-> <<>>]
                ELSE /\ current_provider' = fb
                     /\ analyzers' = r2.analyzers
                     /\ created' = r2.created
                     /\ init_tried' = <<[key |-> Lower(d), ok |-> FALSE],
                                        [key |-> fb, ok |-> ~r2.raised]>>
                     /\ ppc' = IF r2.raised THEN "failed" ELSE "ready"
                     /\ result' = IF r2.raised
                                  THEN [kind |-> "raise",
                                        value |-> <<"Could not initialize any AI provider. ">>]
                                  ELSE [kind |-> "object", value |-> <<>>]
    /\ UNCHANGED <<chunkVars, cleanVars, extractVars, infoVars, retryVars>>

\* switch_provider setting current_provider before the analyzer is obtained
SwitchOutcomeSetsFirst(cur, an, cr, new_provider, constructor_ok) ==
    IF ~validate_provider(Lower(new_provider))
    THEN [current |-> cur, analyzers |-> an, created |-> cr, returned |-> FALSE]
    ELSE LET r == get_analyzer(an, cr, Lower(new_provider), constructor_ok)
         IN  [current |-> Lower(new_provider), analyzers |-> r.analyzers,
              created |-> r.created, returned |-> ~r.raised]

\* the body of switch_provider: the attributes after the call and the bool
\* it returns
SwitchOutcome(cur, an, cr, new_provider, constructor_ok) ==
    IF ~validate_provider(Lower(new_provider))
    THEN [current |-> cur, analyzers |-> an, created |-> cr, returned |-> FALSE]
    ELSE LET r == get_analyzer(an, cr, Lower(new_provider), constructor_ok)
         IN  IF r.raised
             THEN [current |-> cur, analyzers |-> r.analyzers,
                   created |-> r.created, returned |-> FALSE]
             ELSE [current |-> Lower(new_provider), analyzers |-> r.analyzers,
                   created |-> r.created, returned |-> TRUE]

\* self.switch_provider(new_provider)
SwitchProvider ==
    /\ ppc = "ready"
    /\ \E p \in ProviderNames, ok \in BOOLEAN :
         LET r == SwitchOutcome(current_provider, analyzers, created, p, ok)
         IN  /\ call' = [op |-> "switch_provider", is_none |-> FALSE, name |-> p]
             /\ current_provider' = r.current
             /\ analyzers' = r.analyzers
             /\ created' = r.created
             /\ result' = [kind |-> "bool", value |-> r.returned]
    /\ UNCHANGED <<default_provider, ppc, init_tried>>
    /\ UNCHANGED <<chunkVars, cleanVars, extractVars, infoVars, retryVars>>

\* self.get_analyzer(provider), provider None or a name
GetAnalyzerCall ==
    /\ ppc = "ready"
    /\ \E arg \in ProviderArgs, ok \in BOOLEAN :
         LET provider == IF arg.is_none THEN current_provider ELSE arg.name
             r == get_analyzer(analyzers, created, provider, ok)
         IN  /\ call' = [op |-> "get_analyzer", is_none |-> arg.is_none, name |-> arg.name]
             /\ analyzers' = r.analyzers
             /\ created' = r.created
             /\ result' = IF r.raised
                          THEN [kind |-> "raise", value |-> <<"Could not initialize ">>]
                          ELSE [kind |-> "analyzer", value |-> r.analyzer]
    /\ UNCHANGED <<default_provider, ppc, init_tried, current_provider>>
    /\ UNCHANGED <<chunkVars, cleanVars, extractVars, infoVars, retryVars>>

\* self.get_provider_status(): get_analyzer for every provider of PROVIDERS
GetProviderStatus ==
    /\ ppc = "ready"
    /\ \E ok1 \in BOOLEAN, ok2 \in BOOLEAN :
         LET r1 == get_analyzer(analyzers, created, PROVIDERS[1], ok1)
             r2 == get_analyzer(r1.analyzers, r1.created, PROVIDERS[2], ok2)
         IN  /\ call' = [op |-> "get_provider_status", is_none |-> TRUE, name |-> <<>>]
             /\ analyzers' = r2.analyzers
             /\ created' = r2.created
             /\ result' = [kind |-> "status",
                           value |-> [Groq |-> ~r1.raised, Gemini |-> ~r2.raised]]
    /\ UNCHANGED <<default_provider, ppc, init_tried, current_provider>>
    /\ UNCHANGED <<chunkVars, cleanVars, extractVars, infoVars, retryVars>>

InitProvider ==
    /\ ProviderAtRest
    /\ RetryAtRest
    /\ InfoAtRest
    /\ ChunkAtRest
    /\ CleanAtRest
    /\ ExtractAtRest

NextProvider ==
    \/ Construct
    \/ SwitchProvider
    \/ GetAnalyzerCall
    \/ GetProviderStatus

SpecProvider == InitProvider /\ [][NextProvider]_vars

-----------------------------------------------------------------------------
(* gemini_analyzer.GeminiAnalyzer._make_api_call_with_retry *)
\* One pass of the for loop is one step.  What generate_content does is the
\* input of the pass: it returns a response with text ("text"), it returns
\* no response or one whose text is empty ("empty"), or it raises an
\* exception whose message names a quota or rate limit ("quota") or any
\* other exception ("error"); reading response.text inside the try raises
\* into the same handler.  replies records the passes made, slept the
\* arguments of time.sleep, answer how the call ended.

QuotaWaitCap == 40

ReplyKinds == {"text", "empty", "quota", "error"}
RaisingKinds == {"quota", "error"}

RECURSIVE Pow2(_)
Pow2(n) == IF n <= 0 THEN 1 ELSE 2 * Pow2(n - 1)

Min(a, b) == IF a < b THEN a ELSE b

\* the wait before the next pass: min(2 ** (attempt + 1), 40) after a quota
\* error, 2 * (attempt + 1) after any other error
WaitTime(kind, att) ==
    IF kind = "quota" THEN Min(Pow2(att + 1), QuotaWaitCap)
    ELSE 2 * (att + 1)

\* range(max_retries + 1) still has the value attempt
InRange(att, mr) == att >= 0 /\ att < mr + 1

OnExceptionReraises(kind, att, mr) ==
    IF att < mr
    THEN [retry |-> TRUE, wait |-> <<WaitTime(kind, att)>>, answer |-> <<>>]
    ELSE [retry |-> FALSE, wait |-> <<>>,
          answer |-> <<Raised("Exception", kind)>>]

\* the except clause: sleep and continue while attempt < max_retries,
\* otherwise return the notice of the kind of error
OnException(kind, att, mr) ==
    IF att < mr
    THEN [retry |-> TRUE, wait |-> <<WaitTime(kind, att)>>, answer |-> <<>>]
    ELSE [retry |-> FALSE, wait |-> <<>>,
          answer |-> <<Returned(IF kind = "quota" THEN "quota notice"
                                                 ELSE "error notice")>>]

\* generate_content returns: the loop ends with response.text or with the
\* no-response notice
GenerateContentReturns ==
    /\ rpc = "for"
    /\ InRange(attempt, max_retries)
    /\ \E kind \in ReplyKinds \ RaisingKinds :
        /\ replies' = Append(replies, kind)
        /\ answer' = <<Returned(IF kind = "text" THEN "response.text"
                                                 ELSE "no response notice")>>
    /\ rpc' = "done"
    /\ UNCHANGED <<max_retries, attempt, slept>>
    /\ UNCHANGED <<chunkVars, cleanVars, extractVars, infoVars, providerVars>>

\* generate_content raises: sleep and go to the next pass, or return a notice
GenerateContentRaises ==
    /\ rpc = "for"
    /\ InRange(attempt, max_retries)
    /\ \E kind \in RaisingKinds :
        LET o == OnException(kind, attempt, max_retries) IN
        /\ replies' = Append(replies, kind)
        /\ slept' = slept \o o.wait
        /\ answer' = o.answer
        /\ attempt' = IF o.retry THEN attempt + 1 ELSE attempt
        /\ rpc' = IF o.retry THEN "for" ELSE "done"
    /\ UNCHANGED max_retries
    /\ UNCHANGED <<chunkVars, cleanVars, extractVars, infoVars, providerVars>>

\* the range is used up: the return after the loop
ForExhausted ==
    /\ rpc = "for"
    /\ ~InRange(attempt, max_retries)
    /\ answer' = <<Returned("failed notice")>>
    /\ rpc' = "done"
    /\ UNCHANGED <<max_retries, attempt, replies, slept>>
    /\ UNCHANGED <<chunkVars, cleanVars, extractVars, infoVars, providerVars>>

\* max_retries is any int the caller hands in; with a negative one the range
\* is empty
RetryCounts == (0 - 1) .. MaxRetries

InitRetry ==
    /\ max_retries \in RetryCounts
    /\ attempt = 0 /\ rpc = "for"
    /\ replies = <<>> /\ slept = <<>> /\ answer = <<>>
    /\ ProviderAtRest
    /\ InfoAtRest
    /\ ChunkAtRest
    /\ CleanAtRest
    /\ ExtractAtRest

NextRetry ==
    \/ GenerateContentReturns
    \/ GenerateContentRaises
    \/ ForExhausted

SpecRetry == InitRetry /\ [][NextRetry]_vars

-----------------------------------------------------------------------------
(* Properties of extraction *)

ViaExtractText == entry = "DocumentProcessor.extract_text"

ExtractorNames == {"_extract_pdf_text", "_extract_docx_text", "_extract_txt_text"}

\* the steps that read the file
OpeningSteps == ExtractorNames \cup {"fitz.Document", "fitz.open", "WordDocument", "open"}

IsExtractor(step) == step \in ExtractorNames

\* the extractors a call has invoked, in order
ExtractorsRun == SelectSeq(trace, IsExtractor)

\* equality of two strs up to letter case
SameIgnoringCase(s, t) ==
    /\ Len(s) = Len(t)
    /\ \A i \in 1 .. Len(s) :
         s[i] = t[i] \/ <<s[i], t[i]>> \in CasePairs \/ <<t[i], s[i]>> \in CasePairs

\* the extension of the file with the extractor that belongs to it
Formats == {[ext |-> PdfExt,  extractor |-> "_extract_pdf_text"],
            [ext |-> DocxExt, extractor |-> "_extract_docx_text"],
            [ext |-> TxtExt,  extractor |-> "_extract_txt_text"]}

\* C7: no PDF extraction returns or raises with the document handle still open.
C7_HandleReleased ==
    epc = "done" => handle # "open"

\* C8: for a path that does not exist extract_text raises FileNotFoundError,
\* whatever the extension, and only the existence check has run by then.
C8_NotFoundFirst ==
    (ViaExtractText /\ ~file_exists) =>
        /\ epc = "done"
        /\ outcome.kind = "raise"
        /\ outcome.type = "FileNotFoundError"
        /\ trace = <<"os.path.exists">>

\* C8 witness: a missing file with an unsupported extension
C8_Witness ==
    /\ ViaExtractText
    /\ ~file_exists
    /\ Suffix(file_path) = <<".", "r", "t", "f">>
    /\ outcome.type = "FileNotFoundError"

\* C9: for an existing file whose lower-cased extension is not .pdf, .docx or
\* .txt extract_text raises ValueError naming that extension; no extractor
\* runs, nothing opens the file and the error is not wrapped.
C9_UnsupportedFailsFast ==
    (ViaExtractText /\ file_exists /\ Lower(Suffix(file_path)) \notin {PdfExt, DocxExt, TxtExt}) =>
        /\ epc = "done"
        /\ outcome = Raised("ValueError",
                            <<"Unsupported file format: ">> \o Lower(Suffix(file_path)))
        /\ handle = "none"
        /\ \A i \in 1 .. Len(trace) : trace[i] \notin OpeningSteps

\* C9 witness: an existing file with an upper-case unsupported extension
C9_Witness ==
    /\ ViaExtractText
    /\ file_exists
    /\ Suffix(file_path) = <<".", "R", "T", "F">>
    /\ outcome.type = "ValueError"
    /\ outcome.msg = <<"Unsupported file format: ", ".", "r", "t", "f">>

\* C10: for an existing file whose extension is .pdf, .docx or .txt in any
\* letter case, is_supported_format is true and extract_text invokes the
\* extractor of that format and no other, whatever the file holds.
C10_DispatchByExtension ==
    \A f \in Formats :
        (ViaExtractText /\ file_exists /\ SameIgnoringCase(Suffix(file_path), f.ext)) =>
            /\ is_supported_format(file_path)
            /\ ExtractorsRun = <<f.extractor>>

\* C10 witness: a mixed-case .DocX file went through the DOCX extractor
C10_Witness ==
    /\ ViaExtractText
    /\ file_exists
    /\ Suffix(file_path) = <<".", "D", "o", "c", "X">>
    /\ epc = "done"
    /\ ExtractorsRun = <<"_extract_docx_text">>
    /\ outcome.kind = "return"

\* what goes wrong inside the extractor that ran, "none" if nothing does:
\* the library cannot open the file, a page operation raises, or the codec
\* registry does not know the detected encoding
FailureCause ==
    IF ExtractorsRun = <<"_extract_pdf_text">>
    THEN IF ~document.opens THEN "cannot open document"
         ELSE IF document.fault.at \in 1 .. Len(document.parts) THEN document.fault.op
         ELSE "none"
    ELSE IF ExtractorsRun = <<"_extract_docx_text">>
    THEN IF ~document.opens THEN "cannot open document" ELSE "none"
    ELSE IF ExtractorsRun = <<"_extract_txt_text">>
    THEN IF ~document.opens THEN "cannot open file"
         ELSE IF document.detected \notin KnownCodecs \cup {"None"} THEN "unknown encoding: "
         ELSE "none"
    ELSE "none"

ExtractTextDone == ViaExtractText /\ epc = "done"

\* C11: an exception raised inside an extractor leaves extract_text as one
\* "Failed to extract text: ..." Exception whose message holds the message of
\* the original exception.
C11_FailuresWrapped ==
    (ExtractTextDone /\ FailureCause # "none") =>
        /\ outcome.kind = "raise"
        /\ outcome.type = "Exception"
        /\ Head(outcome.msg) = "Failed to extract text: "
        /\ \E i \in 2 .. Len(outcome.msg) : outcome.msg[i] = FailureCause

\* C11 witness: get_text raised on the second page of a PDF
C11_Witness ==
    /\ ExtractTextDone
    /\ page_num = 1
    /\ outcome.msg = <<"Failed to extract text: ", "PDF processing failed: ", "get_text">>

\* C12: TXT extraction of a readable file returns a str whatever the bytes and
\* whatever the detector reports; undecodable bytes are replaced.
C12_GracefulEncoding ==
    (ExtractTextDone /\ ExtractorsRun = <<"_extract_txt_text">> /\ document.opens) =>
        /\ outcome.kind = "return"
        /\ \A i \in 1 .. Len(outcome.value) : outcome.value[i] # BadByte

\* C13: when a step of the extractor fails, extract_text ends with an error and
\* hands no text to the caller, whatever was read before the failure.
C13_AllOrNothing ==
    (ExtractTextDone /\ FailureCause # "none") =>
        /\ outcome.kind = "raise"
        /\ outcome.value = <<>>

\* C13 witness: the second page failed after the first page had given text
C13_Witness ==
    /\ ExtractTextDone
    /\ page_num = 1
    /\ acc # <<>>
    /\ Strip(acc) # <<>>
    /\ outcome.kind = "raise"

\* C19: the text extract_text returns for a PDF is normalized, whatever the
\* number of pages and also when pages have no text.
C19_PdfOutputNormalized ==
    (/\ ExtractTextDone
     /\ ExtractorsRun = <<"_extract_pdf_text">>
     /\ outcome.kind = "return")
    => NormalizedText(outcome.value)

\* C20: every table row with two or more non-blank cells is a line of the
\* text returned for a DOCX file, its cell texts joined by " | ".
C20_TableRowsJoined ==
    (/\ ExtractTextDone
     /\ ExtractorsRun = <<"_extract_docx_text">>
     /\ outcome.kind = "return")
    => \A r \in 1 .. Len(document.rows) :
         LET cells == RowCells(document.rows[r])
             line  == JoinCells(cells)
             v     == outcome.value
         IN  Len(cells) >= 2 =>
               \E i \in 1 .. Len(v) :
                 /\ i + Len(line) - 1 <= Len(v)
                 /\ SubSeq(v, i, i + Len(line) - 1) = line
                 /\ (i = 1 \/ v[i - 1] = "\n")
                 /\ (i + Len(line) - 1 = Len(v) \/ v[i + Len(line)] = "\n")

\* C22: for an existing file get_document_info returns a dict with filename,
\* extension, format label and size; with the counts of the extracted text
\* when extraction succeeded, with zero counts and the error message when it
\* failed; it raises only for a path that does not exist.
C22_DocumentInfo ==
    (entry = "DocumentProcessor.get_document_info" /\ info.kind \notin {"none", "pending"}) =>
        IF ~file_exists
        THEN info.kind = "raise" /\ info.type = "FileNotFoundError"
        ELSE /\ info.kind = "return"
             /\ info.filename = os_path_basename(file_path)
             /\ info.extension = Lower(Suffix(file_path))
             /\ info.format_name = (IF info.extension \in SUPPORTED_FORMATS
                                    THEN FormatName(info.extension) ELSE "Unknown")
             /\ info.file_size = os_path_getsize(document)
             /\ info.extraction_successful = (outcome.kind = "return")
             /\ IF outcome.kind = "return"
                THEN /\ info.character_count = Len(outcome.value)
                     /\ info.word_count = Len(Split(outcome.value))
                ELSE /\ info.character_count = 0
                     /\ info.word_count = 0
                     /\ info.error = outcome.msg
                     /\ info.error # <<>>

\* C22 witness: the info of an existing file of an unsupported format
C22_Witness ==
    /\ info.kind = "return"
    /\ file_exists
    /\ info.format_name = "Unknown"
    /\ ~info.extraction_successful
    /\ Head(info.error) = "Unsupported file format: "

-----------------------------------------------------------------------------
(* Properties of the chunkers *)

SentenceDone == callee = "DocumentProcessor" /\ cpc = "done"
WindowDone   == callee = "PDFProcessor" /\ cpc = "done"

\* the words of a str when the sentence terminators only separate
WordsOf(s) ==
    Split([i \in 1 .. Len(s) |-> IF s[i] \in Terminators THEN " " ELSE s[i]])

\* " ".join(chunks)
RECURSIVE JoinSpace(_)
JoinSpace(cs) ==
    IF cs = <<>> THEN <<>>
    ELSE IF Len(cs) = 1 THEN Head(cs)
    ELSE Head(cs) \o <<" ">> \o JoinSpace(Tail(cs))

\* C1: every chunk that DocumentProcessor.chunk_text returns is at most
\* chunk_size long, unless it consists of one single word longer than that.
C1_SizeBound ==
    SentenceDone =>
        \A i \in 1 .. Len(chunks) :
            \/ Len(chunks[i]) <= chunk_size
            \/ Len(Split(chunks[i])) = 1

\* C2: DocumentProcessor.chunk_text returns for every text and every positive
\* size: the word-splitting loop never stops making progress.
C2_Total ==
    callee = "DocumentProcessor" => cpc # "diverged"

\* C3: for a text longer than chunk_size the chunks, joined with a space and
\* split on whitespace, give the words of the text in the same order (sentence
\* terminators ignored).
C3_OrderPreserved ==
    (SentenceDone /\ Len(text) > chunk_size) =>
        WordsOf(JoinSpace(chunks)) = WordsOf(text)

\* C4: when len(text) is at most the chunk size (the argument, or
\* max_chunk_size when the argument is None; max_chunk_size for the window
\* chunker, whatever the overlap), either chunker returns [text] at once.
C4_NoOpBelowThreshold ==
    /\ (callee = "DocumentProcessor"
        /\ Len(text) <= (IF chunk_size_arg.is_none THEN max_chunk_size
                         ELSE chunk_size_arg.val))
       => (cpc = "done" /\ chunks = <<text>>)
    /\ (callee = "PDFProcessor" /\ Len(text) <= max_chunk_size)
       => (cpc = "done" /\ chunks = <<text>>)

\* C4 witness: the default size is used and the text is exactly that long
C4_Witness ==
    /\ SentenceDone
    /\ chunk_size_arg.is_none
    /\ Len(text) = max_chunk_size
    /\ chunks = <<text>>

\* C17: three sentences of n characters each, chunked with max_chunk_size
\* 2 * n, give two chunks: sentences 1 and 2, then sentence 3.
C17_GreedyPacking ==
    (/\ callee = "DocumentProcessor"
     /\ cpc = "done"
     /\ text \in PackingTexts
     /\ chunk_size = 2 * (Len(text) \div 3))
    => LET n  == Len(text) \div 3
           s1 == SubSeq(text, 1, n)
           s2 == SubSeq(text, n + 1, 2 * n)
           s3 == SubSeq(text, 2 * n + 1, 3 * n)
       IN  /\ Len(chunks) = 2
           /\ chunks[1] \in {s1 \o s2, s1 \o <<" ">> \o s2}
           /\ chunks[2] = s3

\* C18: with 0 <= overlap < max_chunk_size the window chunker does not loop
\* for ever, and every window starts after the one before it, at 0 or later.
C18_WindowTerminates ==
    (callee = "PDFProcessor" /\ overlap >= 0 /\ overlap < max_chunk_size) =>
        /\ cpc # "diverged"
        /\ start >= 0
        /\ \A i \in 1 .. Len(starts) - 1 : starts[i] < starts[i + 1]
        /\ (cpc = "while_start" /\ starts # <<>>) => starts[Len(starts)] < start

\* C21: with overlap < max_chunk_size no chunk of the window chunker is longer
\* than max_chunk_size; a chunk that is not the last ends right after the last
\* period of its window when that period lies beyond the midpoint and is
\* max_chunk_size long otherwise; the last chunk runs to the end of the text.
C21_WindowEndRule ==
    (/\ callee = "PDFProcessor"
     /\ overlap < max_chunk_size
     /\ Len(text) > max_chunk_size)
    => LET periods(s) == {p \in 0 .. Len(text) - 1 :
                            /\ p >= s
                            /\ p < s + max_chunk_size
                            /\ p > s + (max_chunk_size \div 2)
                            /\ text[p + 1] = "."}
       IN  \A i \in 1 .. Len(chunks) :
             /\ Len(chunks[i]) <= max_chunk_size
             /\ IF cpc = "done" /\ i = Len(chunks)
                THEN \E k \in 0 .. Len(text) - 1 : chunks[i] = SubSeq(text, k + 1, Len(text))
                ELSE IF periods(starts[i]) # {}
                THEN /\ chunks[i] # <<>>
                     /\ chunks[i][Len(chunks[i])] = "."
                     /\ Len(chunks[i]) = Max(periods(starts[i])) - starts[i] + 1
                ELSE Len(chunks[i]) = max_chunk_size

\* a text that is one sentence, longer than the chunk size, every word of it
\* shorter than the chunk size, chunked by DocumentProcessor.chunk_text
OverlongSentenceDone ==
    /\ SentenceDone
    /\ \A i \in 1 .. Len(text) : text[i] \notin Terminators
    /\ Len(Strip(text)) > chunk_size
    /\ \A k \in 1 .. Len(Split(text)) : Len(Split(text)[k]) < chunk_size

\* the words of the chunks one after the other
RECURSIVE WordsOfAll(_)
WordsOfAll(cs) ==
    IF cs = <<>> THEN <<>> ELSE Split(Head(cs)) \o WordsOfAll(Tail(cs))

\* C23: an over-long sentence met with an empty buffer is split into
\* sub-chunks no longer than the chunk size that hold its words once each and
\* in order, a word going into the current sub-chunk whenever the sub-chunk
\* with that word is no longer than the chunk size; the buffer stays empty.
C23_WordSplitting ==
    OverlongSentenceDone =>
        /\ \A i \in 1 .. Len(chunks) :
             /\ Len(chunks[i]) <= chunk_size
             /\ chunks[i] = JoinSpace(Split(chunks[i]))
        /\ WordsOfAll(chunks) = Split(text)
        /\ \A i \in 1 .. Len(chunks) - 1 :
             Len(chunks[i]) + 1 + Len(Head(Split(chunks[i + 1]))) > chunk_size
        /\ current_chunk = <<>>

\* the sentences the for loop does not skip, stripped
SentencesKept(t) ==
    LET ss == ReSplitSentences(t)
        NonEmpty(x) == x # <<>>
    IN  SelectSeq([k \in 1 .. Len(ss) |-> Strip(ss[k])], NonEmpty)

\* C24: when every sentence fits, so that no sentence is split into words,
\* every chunk ends with a period and the chunks hold the sentences in order,
\* each followed by ". " (the blank trimmed at the end of a chunk).
C24_SentenceSeparator ==
    (/\ SentenceDone
     /\ Len(text) > chunk_size
     /\ \A k \in 1 .. Len(SentencesKept(text)) :
          Len(SentencesKept(text)[k]) + 1 <= chunk_size)
    => /\ \A i \in 1 .. Len(chunks) :
            chunks[i] # <<>> /\ chunks[i][Len(chunks[i])] = "."
       /\ JoinSpace(chunks)
            = JoinSpace([k \in 1 .. Len(SentencesKept(text)) |->
                            SentencesKept(text)[k] \o <<".">>])

\* the chunks without the first ov characters of every chunk but the first
RECURSIVE DropOverlaps(_, _)
DropOverlaps(cs, ov) ==
    IF cs = <<>> THEN <<>>
    ELSE SubSeq(Head(cs), ov + 1, Len(Head(cs))) \o DropOverlaps(Tail(cs), ov)

\* C25: for a text longer than max_chunk_size and an overlap of at most half
\* of it, the window chunker returns slices of the text in order: the first
\* starts at 0, each later one starts overlap characters before the end of
\* the one before, the last ends where the text ends, and the chunks without
\* their overlaps give the text back.
C25_CoverageAndOverlap ==
    (/\ callee = "PDFProcessor"
     /\ Len(text) > max_chunk_size
     /\ overlap <= max_chunk_size \div 2)
    => /\ cpc # "diverged"
       /\ Len(starts) = Len(chunks)
       /\ \A i \in 1 .. Len(chunks) :
            /\ starts[i] >= 0
            /\ starts[i] + Len(chunks[i]) <= Len(text)
            /\ chunks[i] = SubSeq(text, starts[i] + 1, starts[i] + Len(chunks[i]))
            /\ starts[i] = (IF i = 1 THEN 0
                            ELSE starts[i - 1] + Len(chunks[i - 1]) - overlap)
       /\ cpc = "done" =>
            /\ chunks # <<>>
            /\ starts[Len(chunks)] + Len(chunks[Len(chunks)]) = Len(text)
            /\ Head(chunks) \o DropOverlaps(Tail(chunks), overlap) = text

\* C25 witness: two overlapping chunks, the first shortened to end at a period
C25_Witness ==
    /\ WindowDone
    /\ overlap >= 1
    /\ overlap <= max_chunk_size \div 2
    /\ Len(chunks) >= 2
    /\ Len(chunks[1]) < max_chunk_size
    /\ Head(chunks) \o DropOverlaps(Tail(chunks), overlap) = text

-----------------------------------------------------------------------------
(* Properties of the provider selection *)

\* C27: once a UnifiedAIAnalyzer is constructed, whatever calls follow,
\* current_provider names a provider whose analyzer is in the cache, no
\* provider has had more than one analyzer constructed, and get_analyzer
\* returns the cached analyzer.
C27_ProviderCache ==
    ppc = "ready" =>
        /\ \E a \in analyzers : a.key = current_provider
        /\ \A a \in analyzers : CreatedCount(created, a.key) = 1 /\ a.id = 1
        /\ \A i \in 1 .. Len(created) : CreatedCount(created, created[i]) <= 1
        /\ (call.op = "get_analyzer" /\ result.kind = "analyzer")
              => result.value \in analyzers

\* C27 witness: both analyzers cached, then the cached one handed out again
C27_Witness ==
    /\ ppc = "ready"
    /\ Cardinality(analyzers) = 2
    /\ call.op = "get_analyzer"
    /\ call.is_none
    /\ result.kind = "analyzer"
    /\ result.value.key = current_provider

\* C28: switch_provider returns a bool; when it returns False, current_provider
\* and the cache are as before the call; it returns False for a name that is
\* no provider and when no analyzer of the new provider could be obtained; when
\* it returns True, current_provider is the new provider and its analyzer is
\* in the cache.
C28_FailedSwitchChangesNothing ==
    [][call'.op = "switch_provider" =>
          /\ result'.kind = "bool"
          /\ ~result'.value =>
                /\ current_provider' = current_provider
                /\ analyzers' = analyzers
          /\ ~validate_provider(call'.name) => ~result'.value
          /\ (~\E a \in analyzers' : a.key = Lower(call'.name)) => ~result'.value
          /\ result'.value =>
                /\ current_provider' = Lower(call'.name)
                /\ \E a \in analyzers' : a.key = current_provider']_vars

\* C28 witness: a switch to the other provider failed because its analyzer
\* could not be constructed
C28_Witness ==
    /\ call.op = "switch_provider"
    /\ result.kind = "bool"
    /\ ~result.value
    /\ validate_provider(call.name)
    /\ Lower(call.name) # current_provider
    /\ Cardinality(analyzers) = 1

\* C29: construction ends with the default provider as current_provider when
\* its analyzer initializes; otherwise the other provider (gemini for groq,
\* groq for any other name) is tried and becomes current_provider when it
\* initializes; construction raises only when both fail.
C29_FallbackAtConstruction ==
    ppc # "none" =>
        /\ init_tried # <<>>
        /\ init_tried[1].key = Lower(default_provider)
        /\ IF init_tried[1].ok
           THEN /\ Len(init_tried) = 1
                /\ ppc = "ready"
                /\ (call.op = "__init__" => current_provider = Lower(default_provider))
           ELSE /\ Len(init_tried) = 2
                /\ init_tried[2].key = (IF Lower(default_provider) = GroqKey
                                        THEN GeminiKey ELSE GroqKey)
                /\ IF init_tried[2].ok
                   THEN /\ ppc = "ready"
                        /\ (call.op = "__init__" => current_provider = init_tried[2].key)
                   ELSE ppc = "failed" /\ result.kind = "raise"

\* C29 witness: groq failed and gemini took over
C29_Witness ==
    /\ ppc = "ready"
    /\ call.op = "__init__"
    /\ Lower(default_provider) = GroqKey
    /\ current_provider = GeminiKey
    /\ Len(init_tried) = 2

-----------------------------------------------------------------------------
(* Properties of the retry loop *)

\* C30: for every max_retries >= 0 and every pattern of quota errors and
\* other errors, _make_api_call_with_retry makes at most max_retries + 1
\* API attempts, every attempt before the last one raised (it stops at the
\* first attempt that does not raise), it sleeps once between two attempts,
\* while it runs it still has an attempt to make, it never raises, and it
\* ends by returning a string: the response text, the no-response notice,
\* or an error notice after attempt max_retries + 1.
C30_BoundedRetry ==
    max_retries >= 0 =>
        /\ Len(replies) <= max_retries + 1
        /\ \A i \in 1 .. Len(replies) - 1 : replies[i] \in RaisingKinds
        /\ Len(slept) = Len(replies) - (IF rpc = "done" THEN 1 ELSE 0)
        /\ rpc = "for" =>
            /\ Len(replies) <= max_retries
            /\ \A i \in 1 .. Len(replies) : replies[i] \in RaisingKinds
            /\ answer = <<>>
        /\ rpc = "done" =>
            /\ Len(replies) >= 1
            /\ Len(answer) = 1
            /\ answer[1].kind = "return"
            /\ answer[1].type = "str"
            /\ LET last == replies[Len(replies)] IN
                CASE last = "text" -> answer[1].value = "response.text"
                  [] last = "empty" -> answer[1].value = "no response notice"
                  [] OTHER ->
                        /\ Len(replies) = max_retries + 1
                        /\ answer[1].value \in {"quota notice", "error notice"}

\* every one of max_retries + 1 >= 2 attempts raised and the call has ended
C30_Witness ==
    /\ max_retries >= 1
    /\ rpc = "done"
    /\ Len(replies) = max_retries + 1
    /\ \A i \in 1 .. Len(replies) : replies[i] \in RaisingKinds

=============================================================================
